---- MODULE Spec2Model ----
(***************************************************************************)
(* Model of SupervisedBertTrainer (src/src/supervised_bert_trainer.py) and *)
(* of the construction of its mapping in build_model (src/src/             *)
(* build_model.py).                                                        *)
(*                                                                         *)
(* Tensors are sequences: a [B,S,D] tensor is a sequence of B sequences of *)
(* S rows, a row a sequence of D numbers.  Positions are 0-based in the    *)
(* program (index values) and 1-based in the sequences of the model.       *)
(***************************************************************************)
EXTENDS Integers, Sequences, FiniteSets, TLC

VARIABLES
    args,               \* self.args: the configuration of the run
    env,                \* the machine: whether CUDA is available
    device,             \* self.device
    mapping,            \* self.mapping: its weight and the device it is on
    bert_model,         \* self.bert_model: its parameters and its device
    map_optimizer,      \* self.map_optimizer: the lr of param_groups[0]
    best_valid_metric,  \* self.best_valid_metric
    ckpt_file,          \* content of <model_path>/best_mapping.pkl, or NoFile
    running,            \* FALSE once exit() was called
    op,                 \* the last trainer call: name, arguments, result
    hist,               \* history: the save_best calls made so far
    ndecay              \* history: the number of decay_map_lr calls so far

vars == <<args, env, device, mapping, bert_model, map_optimizer,
          best_valid_metric, ckpt_file, running, op, hist, ndecay>>

\* everything but the record of the last call
trainer == <<args, env, device, mapping, bert_model, map_optimizer,
             best_valid_metric, ckpt_file, running, hist, ndecay>>

----------------------------------------------------------------------------
(* Bounds of the model *)

MaxB == 2       \* batch sizes 1..MaxB
MaxS == 3       \* sequence lengths 1..MaxS
MaxD == 2       \* output dimensions 1..MaxD
MaxA == 3       \* alignment slots (max_align) 1..MaxA
MaxCells == 6   \* an index tensor has at most MaxCells entries
MaxN == 2       \* rows of a batch of aligned embedding pairs 0..MaxN
MaxV == 2       \* rows of the embedding matrices given to procrustes 1..MaxV
MaxDecays == 5  \* decay_map_lr calls in a run
MaxSaves == 3   \* save_best calls entered in the history

----------------------------------------------------------------------------
(* Tensor primitives used by select and rearange *)

RECURSIVE ConcatAll(_)
\* row-major flattening of one level of nesting
ConcatAll(ss) == IF ss = <<>> THEN <<>> ELSE Head(ss) \o ConcatAll(Tail(ss))

\* tensor.view(-1): all elements of a 3-D tensor in row-major order
Flat3(t) == ConcatAll([b \in 1..Len(t) |-> ConcatAll(t[b])])

\* mask.byte(): conversion to uint8
Byte(x) == x % 256

\* mask.byte().view(batch_size, seq_len, 1).expand(-1, -1, output_dim)
ExpandMask(m, batch_size, seq_len, output_dim) ==
    [b \in 1..batch_size |-> [s \in 1..seq_len |->
        [d \in 1..output_dim |-> Byte(m[b][s])]]]

\* layer.masked_select(m3): the elements of layer at the nonzero positions
\* of the same-shaped mask m3, as a 1-D tensor in row-major order
MaskedSelect(t, m3) ==
    LET ft  == Flat3(t)
        fm  == Flat3(m3)
        pos == SelectSeq([i \in 1..Len(ft) |-> i], LAMBDA i : fm[i] # 0)
    IN  [j \in 1..Len(pos) |-> ft[pos[j]]]

\* flat.view(-1, output_dim): consecutive groups of output_dim elements
View2(flat, output_dim) ==
    [j \in 1..(Len(flat) \div output_dim) |->
        SubSeq(flat, (j - 1) * output_dim + 1, j * output_dim)]

\* a select that walks the mask sequence position first, then batch
select_seq_first(lay, m) ==
    LET pos == SelectSeq(
            [k \in 1..(Len(lay) * Len(lay[1])) |->
                <<((k - 1) % Len(lay)) + 1, ((k - 1) \div Len(lay)) + 1>>],
            LAMBDA p : m[p[1]][p[2]] # 0)
    IN  [j \in 1..Len(pos) |-> lay[pos[j][1]][pos[j][2]]]

\* SupervisedBertTrainer.select(layer, mask)
select(lay, m) ==
    LET batch_size == Len(lay)
        seq_len    == Len(lay[1])
        output_dim == Len(lay[1][1])
    IN  View2(MaskedSelect(lay, ExpandMask(m, batch_size, seq_len, output_dim)),
              output_dim)

\* layer.gather(1, idx3): out[b][a][d] = layer[b][idx3[b][a][d]][d]
Gather1(t, idx3) ==
    [b \in 1..Len(idx3) |-> [a \in 1..Len(idx3[b]) |->
        [d \in 1..Len(idx3[b][a]) |-> t[b][idx3[b][a][d] + 1][d]]]]

\* a gather that reads the index as 1-based
rearange_off_by_one(lay, idx) ==
    [b \in 1..Len(idx) |-> [a \in 1..Len(idx[b]) |->
        lay[b][IF idx[b][a] = 0 THEN Len(lay[b]) ELSE idx[b][a]]]]

\* SupervisedBertTrainer.rearange(layer, index)
rearange(lay, idx) ==
    LET batch_size == Len(idx)
        max_align  == Len(idx[1])
        output_dim == Len(lay[1][1])
        expanded_index == [b \in 1..batch_size |-> [a \in 1..max_align |->
                              [d \in 1..output_dim |-> idx[b][a]]]]
    IN  Gather1(lay, expanded_index)

----------------------------------------------------------------------------
(* Inputs of the tensor operations *)

Shapes == (1..MaxB) \X (1..MaxS) \X (1..MaxD)

\* two fillings: every element distinct, and a two-valued one with repeats
Fillings == {"distinct", "parity"}

Elem(f, b, s, d, S, D) ==
    IF f = "distinct" THEN ((b - 1) * S + (s - 1)) * D + d ELSE (b + s + d) % 2

LayerOf(B, S, D, f) ==
    [b \in 1..B |-> [s \in 1..S |-> [d \in 1..D |-> Elem(f, b, s, d, S, D)]]]

Layers == {LayerOf(sh[1], sh[2], sh[3], f) : sh \in Shapes, f \in Fillings}

\* all [B,S] masks of 0/1
Masks(B, S) == [1..B -> [1..S -> {0, 1}]]

\* all [B,A] index tensors with values in [0,S)
Indexes(B, A, S) == [1..B -> [1..A -> 0..(S - 1)]]

\* the index tensors whose every row is a permutation of 0..S-1
IsPerm(row, S) == Len(row) = S /\ {row[a] : a \in 1..Len(row)} = 0..(S - 1)
PermIndexes(B, S) == {ix \in Indexes(B, S, S) : \A b \in 1..B : IsPerm(ix[b], S)}

-------------------------------------------------------------------------------------------------------------------------------------------------
(* Floating-point values.  A tensor element is F(v) for a number v or NaN; *)
(* the inputs are chosen so that every quotient taken is exact.  A scalar  *)
(* produced by mean() is a fraction num/den or NaN.                        *)

\* a sequence given element by element, as the tuple of its elements
Tup(f) == f \o <<>>

F(v) == [nan |-> FALSE, v |-> v]
NaN == [nan |-> TRUE, v |-> 0]

FAdd(x, y) == IF x.nan \/ y.nan THEN NaN ELSE F(x.v + y.v)
FSub(x, y) == IF x.nan \/ y.nan THEN NaN ELSE F(x.v - y.v)
FMul(x, y) == IF x.nan \/ y.nan THEN NaN ELSE F(x.v * y.v)
\* x / n for a norm n >= 0: 0/0 is NaN
FDiv(x, n) == IF x.nan \/ n = 0 THEN NaN ELSE F(x.v \div n)

RECURSIVE FSum(_)
FSum(xs) == IF xs = <<>> THEN F(0) ELSE FAdd(Head(xs), FSum(Tail(xs)))

Frac(num, den) == [nan |-> FALSE, num |-> num, den |-> den]
NaNScalar == [nan |-> TRUE, num |-> 0, den |-> 1]

\* tensor.mean() of the elements xs: the mean of no element is 0/0 = NaN
Mean(xs) ==
    LET total == FSum(xs)
    IN  IF xs = <<>> \/ total.nan THEN NaNScalar ELSE Frac(total.v, Len(xs))

FNeg(sc) == IF sc.nan THEN sc ELSE Frac(0 - sc.num, sc.den)

\* the rows of an integer-valued [n,d] tensor as float rows
ToF(rows) ==
    Tup([i \in 1..Len(rows) |-> Tup([d \in 1..Len(rows[i]) |-> F(rows[i][d])])])

\* row.norm(2): the inputs have rows of integer norm
Norm2(row) ==
    LET sq == FSum(Tup([d \in 1..Len(row) |-> FMul(row[d], row[d])])).v
    IN  CHOOSE n \in 0..sq : n * n = sq

\* emb / emb.norm(2, 1, keepdim=True).expand_as(emb)
Normalize(emb) ==
    Tup([i \in 1..Len(emb) |->
        LET n == Norm2(emb[i])
        IN  Tup([d \in 1..Len(emb[i]) |-> FDiv(emb[i][d], n)])])

\* (a * b).sum(1): the row-wise dot products
RowDots(a, b) ==
    Tup([i \in 1..Len(a) |-> FSum(Tup([d \in 1..Len(a[i]) |-> FMul(a[i][d], b[i][d])]))])

\* a.mm(b.transpose(0, 1)): the all-pairs scores
AllPairs(a, b) ==
    Tup([i \in 1..Len(a) |-> Tup([j \in 1..Len(b) |->
        FSum(Tup([d \in 1..Len(a[i]) |-> FMul(a[i][d], b[j][d])]))])])

\* the order of topk: NaN counts as greater than every number
RanksFirst(x, y) == x.nan \/ (~y.nan /\ x.v >= y.v)

RemoveAt(xs, i) == SubSeq(xs, 1, i - 1) \o SubSeq(xs, i + 1, Len(xs))

RECURSIVE TopK(_, _)
\* row.topk(k, largest=True): the k largest values, in descending order
TopK(row, k) ==
    IF k = 0 THEN <<>>
    ELSE LET i == CHOOSE i \in 1..Len(row) :
                    \A j \in 1..Len(row) : RanksFirst(row[i], row[j])
         IN  <<row[i]>> \o TopK(RemoveAt(row, i), k - 1)

\* margin losses without the clamp at 0
MarginLosses_unclamped(gold_scores, top_vals, margin) ==
    Tup([i \in 1..Len(top_vals) |-> Tup([j \in 1..Len(top_vals[i]) |->
        FAdd(FSub(F(margin), gold_scores[i]), top_vals[i][j])])])

\* lines 91-97: losses = where(margins - gold_vals + top_vals > 0, ., 0)
MarginLosses(gold_scores, top_vals, margin) ==
    Tup([i \in 1..Len(top_vals) |-> Tup([j \in 1..Len(top_vals[i]) |->
        LET l == FAdd(FSub(F(margin), gold_scores[i]), top_vals[i][j])
        IN  IF ~l.nan /\ l.v > 0 THEN l ELSE F(0)])])

\* lines 83-89: the gold scores and the top-k entries of every row of scores
GoldScores(src, tgt) == RowDots(src, tgt)
TopVals(src, tgt, k) ==
    LET scores == AllPairs(src, tgt)
    IN  Tup([i \in 1..Len(scores) |-> TopK(scores[i], k)])

\* lines 63-65: the rows the loss is computed on
LossRows(a, emb) == IF a.normalize_embed THEN Normalize(ToF(emb)) ELSE ToF(emb)

\* line 89: topk raises when asked for more entries than a row of scores has
TopkRaises(a, tgt_emb) == a.loss.kind = "max_margin_top" /\ a.loss.k > Len(tgt_emb)

\* lines 62-99: the loss of one batch
Loss(a, src_emb, tgt_emb, margin) ==
    LET src == LossRows(a, src_emb)
        tgt == LossRows(a, tgt_emb)
    IN  CASE a.loss.kind = "cos_sim" ->
                FNeg(Mean(GoldScores(src, tgt)))
          [] a.loss.kind = "l2_dist" ->
                LET sub == Tup([i \in 1..Len(src) |-> Tup([d \in 1..Len(src[i]) |->
                               FSub(src[i][d], tgt[i][d])])])
                IN  Mean(RowDots(sub, sub))
          [] a.loss.kind = "max_margin_top" ->
                Mean(ConcatAll(MarginLosses(GoldScores(src, tgt),
                                            TopVals(src, tgt, a.loss.k), margin)))

\* lines 106-111: the average cosine similarity, always on normalized rows
AvgCosSim(src_emb, tgt_emb) ==
    Mean(RowDots(Normalize(ToF(src_emb)), Normalize(ToF(tgt_emb))))

\* optimizer calls made in evaluation too
OptimCalls_in_eval(loss, eval_only) ==
    IF loss.nan THEN <<>> ELSE <<"zero_grad", "backward", "step">>

\* optimizer calls made whatever the loss is
OptimCalls_no_nan_check(loss, eval_only) ==
    IF eval_only THEN <<>> ELSE <<"zero_grad", "backward", "step">>

\* lines 101-120: the optimizer calls of one step, in order
OptimCalls(loss, eval_only) ==
    IF loss.nan THEN <<>>
    ELSE IF eval_only THEN <<>>
    ELSE <<"zero_grad", "backward", "step">>

\* lines 101-104: exit() on a NaN loss
Exits(loss) == loss.nan

----------------------------------------------------------------------------
(* Construction: build_model and SupervisedBertTrainer.__init__ *)

Devices == {"cpu", "cuda"}

\* lines 35-38 (and build_model lines 46-50)
DeviceOf(a, e) ==
    IF a.local_rank = -1 \/ a.no_cuda
    THEN IF e.cuda_available /\ ~a.no_cuda THEN "cuda" ELSE "cpu"
    ELSE "cuda"

\* mapping weights: hidden_size is 2 in the model
IdentityWeight == <<<<1, 0>>, <<0, 1>>>>
WeightVals == {IdentityWeight, <<<<0, 1>>, <<1, 0>>>>, <<<<2, 0>>, <<0, 1>>>>}

\* the encoder's parameters, as the number of the version they are at
EncVals == 0..2

\* units of 1e12: self.best_valid_metric = -1e12
InitBestValidMetric == -1

NoFile == [kind |-> "absent"]
NoCall == [name |-> "init"]

\* mapping.state_dict() and bert_model.state_dict(): parameter name -> tensor
MappingStateDict(m) == [weight |-> m.weight]
BertStateDict(b) == [encoder |-> b.params]
FileOf(sd) == [kind |-> "file", state_dict |-> sd]

\* build_model lines 56-67 and __init__ lines 29-50
InitWith(ArgsSet, EnvSet, Files) ==
    /\ args \in ArgsSet
    /\ env \in EnvSet
    /\ (args.local_rank # -1 /\ ~args.no_cuda) => env.cuda_available
    /\ device = DeviceOf(args, env)
    /\ mapping \in [weight : IF args.map_id_init THEN {IdentityWeight} ELSE WeightVals,
                    dev : {device}]
    /\ bert_model = [params |-> 0, dev |-> device, training |-> TRUE]
    /\ map_optimizer = [lr |-> args.lr]
    /\ best_valid_metric = InitBestValidMetric
    /\ ckpt_file \in Files
    /\ running = TRUE
    /\ op = NoCall
    /\ hist = <<>>
    /\ ndecay = 0

\* learning rates are fractions <<numerator, denominator>>
DefaultArgs ==
    [map_type |-> "linear", loss |-> [kind |-> "max_margin_top", k |-> 1],
     normalize_embed |-> FALSE, map_optimizer |-> "sgd", lr |-> <<1, 10>>,
     min_lr |-> <<1, 100>>, lr_decay |-> <<1, 2>>, no_cuda |-> TRUE,
     local_rank |-> -1, map_id_init |-> TRUE]

DefaultEnv == [cuda_available |-> FALSE]

----------------------------------------------------------------------------
(* supervised_mapping_step *)

\* the parameters the optimizer was built on (lines 43-46)
Trainable == IF args.map_type = "fine_tune" THEN "bert_model" ELSE "mapping"

\* supervised_mapping_step(src_emb, tgt_emb, margin, eval_only); the values
\* optimizer.step() leaves in the parameters are any of the value sets
SupervisedMappingStep(src_emb, tgt_emb, margin, eval_only) ==
    LET loss == Loss(args, src_emb, tgt_emb, margin)
        call == [name |-> "step", src |-> src_emb, tgt |-> tgt_emb,
                 margin |-> margin, eval_only |-> eval_only]
    IN  /\ running
        /\ IF TopkRaises(args, tgt_emb)
           THEN /\ op' = [call EXCEPT !.name = "step_raised"]
                /\ UNCHANGED trainer
           ELSE LET calls == OptimCalls(loss, eval_only)
                    stepped == \E i \in 1..Len(calls) : calls[i] = "step"
                IN  /\ running' = ~Exits(loss)
                    /\ op' = [name |-> "step", src |-> src_emb, tgt |-> tgt_emb,
                              margin |-> margin, eval_only |-> eval_only,
                              loss |-> loss, calls |-> calls,
                              avg_cos_sim |-> IF Exits(loss) THEN NaNScalar
                                              ELSE AvgCosSim(src_emb, tgt_emb)]
                    /\ IF stepped /\ Trainable = "mapping"
                       THEN \E w \in WeightVals : mapping' = [mapping EXCEPT !.weight = w]
                       ELSE UNCHANGED mapping
                    /\ IF stepped /\ Trainable = "bert_model"
                       THEN \E v \in EncVals : bert_model' = [bert_model EXCEPT !.params = v]
                       ELSE UNCHANGED bert_model
                    /\ UNCHANGED <<args, env, device, map_optimizer,
                                   best_valid_metric, ckpt_file, hist, ndecay>>

\* embedding rows: one nonzero component at most, so that norms are integers
EmbRows == {<<0, 0>>, <<1, 0>>, <<0, 1>>, <<-2, 0>>}

\* all pairs (src_emb, tgt_emb) of n rows each
Batches(n) == [1..n -> EmbRows] \X [1..n -> EmbRows]

Margins == {0, 1}

\* the loss is a function of args and of the batch: in the specification of
\* the loss one evaluation step is taken, over every batch of up to MaxN rows
StepWide ==
    /\ op.name = "init"
    /\ \E n \in 0..MaxN : \E bt \in Batches(n) : \E m \in Margins :
        SupervisedMappingStep(bt[1], bt[2], m, TRUE)

LossArgs ==
    {[DefaultArgs EXCEPT !.loss = [kind |-> "max_margin_top", k |-> k],
                         !.normalize_embed = ne] :
        k \in 0..MaxN, ne \in BOOLEAN}

InitLoss == InitWith(LossArgs, {DefaultEnv}, {NoFile})

SpecLoss == InitLoss /\ [][StepWide]_vars

----------------------------------------------------------------------------
(* The extraction calls: encoder, mapping, rearange, select *)

RECURSIVE SumInts(_)
SumInts(xs) == IF xs = <<>> THEN 0 ELSE Head(xs) + SumInts(Tail(xs))

\* the encoder's chosen layer for a batch of token ids: a [B,S,2] tensor
\* that depends on the ids and on the encoder's parameters
Encoder(params, input_ids) ==
    [b \in 1..Len(input_ids) |-> [s \in 1..Len(input_ids[b]) |->
        <<input_ids[b][s] + params, input_ids[b][s]>>]]

\* nn.Linear without bias: y = x W^T on the last dimension
Linear(W, x) ==
    [b \in 1..Len(x) |-> [s \in 1..Len(x[b]) |->
        [o \in 1..Len(W) |->
            SumInts([i \in 1..Len(W[o]) |-> x[b][s][i] * W[o][i]] \o <<>>)]]]

\* the devices a caller's tensor can be on
InputDevices == IF env.cuda_available THEN Devices ELSE {"cpu"}

NoTensor == <<>>

MappedCall(name, outcome, applied, transferred, x0, x, w, out, out_dev) ==
    [name |-> name, outcome |-> outcome, applied |-> applied,
     transferred |-> transferred, x_dev0 |-> x0, w_dev0 |-> mapping.dev,
     x_dev |-> x, w_dev |-> w, out |-> out, out_dev |-> out_dev]

\* get_indexed_mapped_bert(input_ids, input_mask, index, align_mask) with
\* the ids on device in_dev; bert_model1 is None
GetIndexedMappedBert(input_ids, in_dev, index, align_mask) ==
    LET name     == "get_indexed_mapped_bert"
        fine     == args.map_type = "fine_tune"
        unmasked == Encoder(bert_model.params, input_ids)
        x_dev    == bert_model.dev
        mapped   == IF fine THEN unmasked ELSE Linear(mapping.weight, unmasked)
        out      == select(rearange(mapped, index), align_mask)
    IN  /\ running
        \* get_unmasked_bert puts the encoder in eval mode (line 128)
        /\ bert_model' = IF fine THEN bert_model
                         ELSE [bert_model EXCEPT !.training = FALSE]
        /\ op' = IF in_dev # bert_model.dev
                 THEN MappedCall(name, "RuntimeError", FALSE, FALSE, in_dev,
                                 in_dev, mapping.dev, NoTensor, "none")
                 ELSE IF fine
                 THEN MappedCall(name, "return", FALSE, FALSE, x_dev, x_dev,
                                 mapping.dev, out, x_dev)
                 ELSE IF mapping.dev # x_dev
                 THEN MappedCall(name, "RuntimeError", TRUE, FALSE, x_dev,
                                 x_dev, mapping.dev, NoTensor, "none")
                 ELSE MappedCall(name, "return", TRUE, FALSE, x_dev, x_dev,
                                 mapping.dev, out, x_dev)
        /\ UNCHANGED <<args, env, device, mapping, map_optimizer,
                       best_valid_metric, ckpt_file, running, hist, ndecay>>

\* get_indexed_mapped_bert_from_bert(unmasked_bert, input_mask, index,
\* align_mask) with unmasked_bert on device x_dev0
GetIndexedMappedBertFromBert(unmasked_bert, x_dev0, index, align_mask) ==
    LET name   == "get_indexed_mapped_bert_from_bert"
        fine   == args.map_type = "fine_tune"
        mapped == IF fine THEN unmasked_bert
                  ELSE Linear(mapping.weight, unmasked_bert)
        out    == select(rearange(mapped, index), align_mask)
    IN  /\ running
        /\ IF fine
           THEN /\ op' = MappedCall(name, "return", FALSE, FALSE, x_dev0, x_dev0,
                                    mapping.dev, out, x_dev0)
                /\ UNCHANGED mapping
           ELSE IF device = "cpu"
           THEN IF ~env.cuda_available
                \* unmasked_bert.cuda() raises (line 209)
                THEN /\ op' = MappedCall(name, "RuntimeError", FALSE, FALSE, x_dev0,
                                         x_dev0, mapping.dev, NoTensor, "none")
                     /\ UNCHANGED mapping
                \* lines 207-214: both to the GPU, the result back to the CPU
                ELSE /\ op' = MappedCall(name, "return", TRUE, TRUE, x_dev0,
                                         "cuda", "cuda", out, "cpu")
                     /\ mapping' = [mapping EXCEPT !.dev = "cuda"]
           ELSE /\ op' = IF mapping.dev # x_dev0
                         THEN MappedCall(name, "RuntimeError", TRUE, FALSE, x_dev0,
                                         x_dev0, mapping.dev, NoTensor, "none")
                         ELSE MappedCall(name, "return", TRUE, FALSE, x_dev0,
                                         x_dev0, mapping.dev, out, x_dev0)
                /\ UNCHANGED mapping
        /\ UNCHANGED <<args, env, device, bert_model, map_optimizer,
                       best_valid_metric, ckpt_file, running, hist, ndecay>>

\* get_indexed_bert(input_ids, input_mask, index, align_mask)
GetIndexedBert(input_ids, in_dev, index, align_mask) ==
    LET unmasked == Encoder(bert_model.params, input_ids)
    IN  /\ running
        /\ bert_model' = [bert_model EXCEPT !.training = FALSE]
        /\ op' = IF in_dev # bert_model.dev
                 THEN [name |-> "get_indexed_bert", outcome |-> "RuntimeError",
                       out |-> NoTensor]
                 ELSE [name |-> "get_indexed_bert", outcome |-> "return",
                       out |-> select(rearange(unmasked, index), align_mask)]
        /\ UNCHANGED <<args, env, device, mapping, map_optimizer,
                       best_valid_metric, ckpt_file, running, hist, ndecay>>

\* get_indexed_bert_from_bert(unmasked_bert, index, align_mask)
GetIndexedBertFromBert(unmasked_bert, index, align_mask) ==
    /\ running
    /\ op' = [name |-> "get_indexed_bert_from_bert", outcome |-> "return",
              out |-> select(rearange(unmasked_bert, index), align_mask)]
    /\ UNCHANGED trainer

----------------------------------------------------------------------------
(* procrustes *)

Transpose(M) == [j \in 1..Len(M[1]) |-> [i \in 1..Len(M) |-> M[i][j]]]

\* X.mm(Y) for X [n,m] with n >= 1 and Y [m,p]
MatMul(X, Y) ==
    [i \in 1..Len(X) |-> [j \in 1..Len(Y[1]) |->
        SumInts([l \in 1..Len(Y) |-> X[i][l] * Y[l][j]] \o <<>>)]]

\* the orthogonal 2 x 2 matrices with integer entries
Orthogonal2 ==
    {Q \in {<<<<a, b>>, <<c, d>>>> : a \in -1..1, b \in -1..1, c \in -1..1, d \in -1..1} :
        MatMul(Transpose(Q), Q) = IdentityWeight}

SymmetricPSD2(P) ==
    /\ P[1][2] = P[2][1]
    /\ P[1][1] >= 0 /\ P[2][2] >= 0
    /\ P[1][1] * P[2][2] - P[1][2] * P[2][1] >= 0

\* the factor of the transposed product, A^T B in place of B^T A
OrthogonalFactors_of_transpose(M) ==
    {Q \in Orthogonal2 : SymmetricPSD2(MatMul(Transpose(Q), Transpose(M)))}

\* U.dot(V_t) for M = U S V_t (line 251): the orthogonal factor Q of the
\* polar decomposition M = Q P, P symmetric positive semidefinite.  It is
\* unique when M is invertible; for a singular M any such Q can come out.
OrthogonalFactors(M) ==
    {Q \in Orthogonal2 : SymmetricPSD2(MatMul(Transpose(Q), M))}

\* procrustes(src_embs, tgt_embs), for inputs whose factor has integer entries
Procrustes(src_embs, tgt_embs) ==
    LET A == src_embs
        B == tgt_embs
        M == MatMul(Transpose(B), A)
    IN  /\ running
        /\ \E Q \in OrthogonalFactors(M) :
                mapping' = [mapping EXCEPT !.weight = Q]
        /\ op' = [name |-> "procrustes", src |-> A, tgt |-> B,
                  was |-> mapping.weight]
        /\ UNCHANGED <<args, env, device, bert_model, map_optimizer,
                       best_valid_metric, ckpt_file, running, hist, ndecay>>

----------------------------------------------------------------------------
(* decay_map_lr: learning rates are fractions <<numerator, denominator>> *)

RECURSIVE Gcd(_, _)
Gcd(a, b) == IF b = 0 THEN a ELSE Gcd(b, a % b)

Reduced(r) == LET g == Gcd(r[1], r[2]) IN <<r[1] \div g, r[2] \div g>>
RMul(r, q) == Reduced(<<r[1] * q[1], r[2] * q[2]>>)
RLess(r, q) == r[1] * q[2] < q[1] * r[2]
\* Python's max(a, b): b when b > a, else a
RMax(a, b) == IF RLess(a, b) THEN b ELSE a

\* a decay that does not stop at min_lr
NewLr_no_floor(old_lr, a) ==
    IF RLess(RMul(old_lr, a.lr_decay), old_lr) THEN RMul(old_lr, a.lr_decay)
    ELSE old_lr

\* lines 261-265: the learning rate after one call of an SGD optimizer
NewLr(old_lr, a) ==
    LET new_lr == RMax(a.min_lr, RMul(old_lr, a.lr_decay))
    IN  IF RLess(new_lr, old_lr) THEN new_lr ELSE old_lr

\* line 259: 'sgd' in self.args.map_optimizer
IsSgd(a) == a.map_optimizer \in {"sgd", "sgd,lr=0.1"}

\* decay_map_lr(); count says whether the call is entered in the history
DecayMapLr(count) ==
    /\ running
    /\ count => ndecay < MaxDecays
    /\ ndecay' = IF count THEN ndecay + 1 ELSE ndecay
    /\ map_optimizer' = IF IsSgd(args)
                        THEN [map_optimizer EXCEPT !.lr = NewLr(map_optimizer.lr, args)]
                        ELSE map_optimizer
    /\ op' = [name |-> "decay_map_lr"]
    /\ UNCHANGED <<args, env, device, mapping, bert_model, best_valid_metric,
                   ckpt_file, running, hist>>

----------------------------------------------------------------------------
(* save_best, save_model, load_best, load_model *)

\* lines 286-298: what save_model writes
SavedStateDict ==
    IF args.map_type = "fine_tune" THEN BertStateDict(bert_model)
    ELSE MappingStateDict(mapping)

\* a save_best that also saves on a tie
Improves_or_ties(value, best) == value >= best

\* line 272: to_log[metric] > self.best_valid_metric
Improves(value, best) == value > best

\* save_best(to_log, metric) with to_log[metric] = value; keep says whether
\* the call is entered in the history
SaveBest(value, keep) ==
    /\ running
    /\ keep => Len(hist) < MaxSaves
    /\ hist' = IF keep
               THEN Append(hist, [metric |-> value, state_dict |-> SavedStateDict,
                                  saved |-> Improves(value, best_valid_metric)])
               ELSE hist
    /\ IF Improves(value, best_valid_metric)
       THEN /\ best_valid_metric' = value
            /\ ckpt_file' = FileOf(SavedStateDict)
            /\ op' = [name |-> "save_best", metric |-> value, saved |-> TRUE]
       ELSE /\ UNCHANGED <<best_valid_metric, ckpt_file>>
            /\ op' = [name |-> "save_best", metric |-> value, saved |-> FALSE]
    /\ UNCHANGED <<args, env, device, mapping, bert_model, map_optimizer,
                   running, ndecay>>

\* a load_best that falls back to the identity when there is no checkpoint
LoadOutcome_fallback(file) ==
    IF file.kind # "file" THEN [outcome |-> "return", weight |-> IdentityWeight]
    ELSE IF DOMAIN file.state_dict # {"weight"}
    THEN [outcome |-> "RuntimeError", weight |-> mapping.weight]
    ELSE [outcome |-> "return", weight |-> file.state_dict.weight]

\* lines 304-320: the outcome of load_best and the mapping weight after it:
\* the assertion on the file, then load_state_dict into self.mapping, which
\* raises when the names in the file are not the mapping's
LoadOutcome(file) ==
    IF file.kind # "file"
    THEN [outcome |-> "AssertionError", weight |-> mapping.weight]
    ELSE IF DOMAIN file.state_dict # {"weight"}
    THEN [outcome |-> "RuntimeError", weight |-> mapping.weight]
    ELSE [outcome |-> "return", weight |-> file.state_dict.weight]

LoadBest ==
    LET r == LoadOutcome(ckpt_file)
    IN  /\ running
        /\ mapping' = [mapping EXCEPT !.weight = r.weight]
        /\ op' = [name |-> "load_best", outcome |-> r.outcome,
                  was |-> mapping.weight]
        /\ UNCHANGED <<args, env, device, bert_model, map_optimizer,
                       best_valid_metric, ckpt_file, running, hist, ndecay>>

-------
(* The tensor operations as calls *)

\* the call select(layer, mask)
SelectOf(lay, m) ==
    /\ running
    /\ op' = [name |-> "select", layer |-> lay, mask |-> m, out |-> select(lay, m)]
    /\ UNCHANGED trainer

\* the call rearange(layer, index)
RearangeOf(lay, ix) ==
    /\ running
    /\ op' = [name |-> "rearange", layer |-> lay, index |-> ix,
              out |-> rearange(lay, ix), before |-> <<>>]
    /\ UNCHANGED trainer

\* the two are pure: in the specification of the tensor operations a fresh
\* layer is drawn once, for the first call
Select ==
    /\ op.name = "init"
    /\ \E lay \in Layers : \E m \in Masks(Len(lay), Len(lay[1])) : SelectOf(lay, m)

Rearange ==
    /\ op.name = "init"
    /\ \E lay \in Layers : \E A \in 1..MaxA :
        /\ Len(lay) * A <= MaxCells
        /\ \E ix \in Indexes(Len(lay), A, Len(lay[1])) : RearangeOf(lay, ix)

\* rearange applied to the result of a rearange by a permutation
RearangeAgain ==
    /\ op.name = "rearange"
    /\ op.before = <<>>
    /\ \A b \in 1..Len(op.index) : IsPerm(op.index[b], Len(op.layer[1]))
    /\ \E ix \in PermIndexes(Len(op.out), Len(op.out[1])) :
            op' = [name |-> "rearange", layer |-> op.out, index |-> ix,
                   out |-> rearange(op.out, ix),
                   before |-> <<op.layer, op.index>>]
    /\ UNCHANGED trainer

InitTensor == InitWith({DefaultArgs}, {DefaultEnv}, {NoFile})

NextTensor == Select \/ Rearange \/ RearangeAgain

SpecTensor == InitTensor /\ [][NextTensor]_vars

-------------------------------------------------------------------------------------------------------------------------------------------------
(* Small inputs, for the specifications that interleave the calls *)

\* the empty batch, a pair with a zero row, and three pairs of unit rows
SmallBatches ==
    {<<<<>>, <<>>>>, <<<<<<0, 0>>>>, <<<<1, 0>>>>>>, <<<<<<1, 0>>>>, <<<<1, 0>>>>>>,
     <<<<<<1, 0>>>>, <<<<0, 1>>>>>>, <<<<<<-2, 0>>>>, <<<<1, 0>>>>>>}

SmallIds == {<<<<1, 2>>, <<3, 4>>>>}
SmallIndexes == {<<<<0, 1>>, <<1, 1>>>>}
SmallMasks == {<<<<1, 1>>, <<1, 0>>>>, <<<<0, 1>>, <<0, 0>>>>}
SmallLayers == {LayerOf(2, 2, 2, "distinct")}

\* values of a validation metric, in units of 1e12: -2 is below the initial
\* best_valid_metric
MetricVals == {-2, 0, 1}

ProcrustesSrc == {<<<<1, 0>>, <<0, 1>>>>}
ProcrustesTgt == {<<<<1, 0>>, <<0, 1>>>>, <<<<0, 1>>, <<-2, 0>>>>}

----------------------------------------------------------------------------
(* The step alone: every loss, training and evaluation *)

StepArgs ==
    {[DefaultArgs EXCEPT !.loss = l, !.normalize_embed = ne, !.map_type = mt] :
        l \in {[kind |-> "cos_sim", k |-> 0], [kind |-> "l2_dist", k |-> 0],
               [kind |-> "max_margin_top", k |-> 0],
               [kind |-> "max_margin_top", k |-> 1]},
        ne \in BOOLEAN, mt \in {"linear", "fine_tune"}}

Step ==
    \E bt \in SmallBatches : \E eval_only \in BOOLEAN :
        SupervisedMappingStep(bt[1], bt[2], 1, eval_only)

InitStep == InitWith(StepArgs, {DefaultEnv}, {NoFile})

SpecStep == InitStep /\ [][Step]_vars

----------------------------------------------------------------------------
(* Checkpoints: training steps, save_best and load_best *)

CkptArgs == {[DefaultArgs EXCEPT !.map_type = mt] : mt \in {"linear", "fine_tune"}}

\* a training step on one fixed batch
TrainStep == SupervisedMappingStep(<<<<1, 0>>>>, <<<<0, 1>>>>, 1, FALSE)

SaveBestKept == \E v \in MetricVals : SaveBest(v, TRUE)

\* the checkpoint file is absent, or left there by an earlier run
InitCkpt ==
    /\ InitWith(CkptArgs, {DefaultEnv}, {NoFile} \cup
            {FileOf([weight |-> w]) : w \in WeightVals} \cup
            {FileOf([encoder |-> v]) : v \in EncVals})
    /\ ckpt_file.kind = "file" =>
            DOMAIN ckpt_file.state_dict = DOMAIN SavedStateDict

NextCkpt == TrainStep \/ SaveBestKept \/ LoadBest

SpecCkpt == InitCkpt /\ [][NextCkpt]_vars

----------------------------------------------------------------------------
(* The learning rate: decay_map_lr alone *)

LrArgs ==
    {[DefaultArgs EXCEPT !.map_optimizer = o, !.lr = lr, !.min_lr = mn,
                         !.lr_decay = dc] :
        o \in {"sgd", "adam"}, lr \in {<<1, 10>>, <<1, 200>>},
        mn \in {<<1, 100>>, <<1, 25>>, <<0, 1>>},
        dc \in {<<1, 2>>, <<1, 10>>, <<1, 1>>, <<3, 2>>}}

InitLr == InitWith(LrArgs, {DefaultEnv}, {NoFile})

DecayMapLrCounted == DecayMapLr(TRUE)

SpecLr == InitLr /\ [][DecayMapLrCounted]_vars

----------------------------------------------------------------------------
(* Devices: the two calls that apply the mapping *)

DeviceArgs ==
    {[DefaultArgs EXCEPT !.map_type = mt, !.no_cuda = nc, !.local_rank = lr] :
        mt \in {"linear", "fine_tune"}, nc \in BOOLEAN, lr \in {-1, 0}}

Envs == [cuda_available : BOOLEAN]

MappedBert ==
    \E ids \in SmallIds : \E d \in InputDevices :
        \E ix \in SmallIndexes : \E m \in SmallMasks :
            GetIndexedMappedBert(ids, d, ix, m)

MappedBertFromBert ==
    \E x \in SmallLayers : \E d \in InputDevices :
        \E ix \in SmallIndexes : \E m \in SmallMasks :
            GetIndexedMappedBertFromBert(x, d, ix, m)

InitDevice == InitWith(DeviceArgs, Envs, {NoFile})

NextDevice == MappedBert \/ MappedBertFromBert

SpecDevice == InitDevice /\ [][NextDevice]_vars

----------------------------------------------------------------------------
(* The trainer: every call *)

MainArgs ==
    {[DefaultArgs EXCEPT !.map_type = mt, !.lr_decay = <<1, 10>>] :
        mt \in {"linear", "fine_tune"}}

SelectCall ==
    \E lay \in SmallLayers : \E m \in SmallMasks : SelectOf(lay, m)

RearangeCall ==
    \E lay \in SmallLayers : \E ix \in SmallIndexes : RearangeOf(lay, ix)

IndexedBert ==
    \E ids \in SmallIds : \E d \in InputDevices :
        GetIndexedBert(ids, d, <<<<0, 1>>, <<1, 1>>>>, <<<<1, 1>>, <<1, 0>>>>)

IndexedBertFromBert ==
    \E x \in SmallLayers :
        GetIndexedBertFromBert(x, <<<<0, 1>>, <<1, 1>>>>, <<<<1, 1>>, <<1, 0>>>>)

StepCall ==
    \E bt \in {<<<<>>, <<>>>>, <<<<<<1, 0>>>>, <<<<0, 1>>>>>>} :
        \E eval_only \in BOOLEAN :
            SupervisedMappingStep(bt[1], bt[2], 1, eval_only)

DecayMapLrCall == DecayMapLr(FALSE)

ProcrustesCall ==
    \E A \in ProcrustesSrc : \E B \in ProcrustesTgt : Procrustes(A, B)

SaveBestCall == \E v \in {-2, 0} : SaveBest(v, FALSE)

Init == InitWith(MainArgs, {[cuda_available |-> TRUE]}, {NoFile})

Next ==
    \/ SelectCall
    \/ RearangeCall
    \/ MappedBert
    \/ MappedBertFromBert
    \/ IndexedBert
    \/ IndexedBertFromBert
    \/ StepCall
    \/ ProcrustesCall
    \/ DecayMapLrCall
    \/ SaveBestCall
    \/ LoadBest

Spec == Init /\ [][Next]_vars

----------------------------------------------------------------------------
(* Procrustes on rotated embeddings: B = A R for an orthogonal R, called
   once after training steps, save_best and decay_map_lr have changed the
   weight, the best metric and the optimizer *)

ProcrustesRows == {<<1, 0>>, <<0, 1>>, <<1, 1>>}

\* the source matrices [V, 2], 1 <= V <= MaxV
RotatedSrc == UNION {{Tup(A) : A \in [1..V -> ProcrustesRows]} : V \in 1..MaxV}

\* procrustes(A, A R), once
ProcrustesRotated ==
    /\ op.name # "procrustes"
    /\ \E A \in RotatedSrc : \E R \in Orthogonal2 : Procrustes(A, MatMul(A, R))

\* the calls that come before it
BeforeProcrustes ==
    /\ op.name # "procrustes"
    /\ (TrainStep \/ SaveBestCall \/ DecayMapLrCall)

InitProcrustes ==
    InitWith({[DefaultArgs EXCEPT !.min_lr = <<1, 20>>]}, {DefaultEnv}, {NoFile})

NextProcrustes == ProcrustesRotated \/ BeforeProcrustes

SpecProcrustes == InitProcrustes /\ [][NextProcrustes]_vars

-------
(* C1 *)

\* the 1-bits of a mask as (b, s) pairs, batch first, then sequence position
OneBits(m) ==
    LET B == Len(m)
        S == Len(m[1])
    IN  SelectSeq([k \in 1..(B * S) |-> <<((k - 1) \div S) + 1, ((k - 1) % S) + 1>>],
                  LAMBDA p : m[p[1]][p[2]] = 1)

RowsDistinct(lay) ==
    \A b1, b2 \in 1..Len(lay) : \A s1, s2 \in 1..Len(lay[1]) :
        lay[b1][s1] = lay[b2][s2] => (b1 = b2 /\ s1 = s2)

\* C1: the output of select has one row per 1-bit of the mask, its j-th row
\* is layer[b,s,:] for the j-th 1-bit (b,s) in batch-then-sequence order, and
\* (when the rows of the layer are pairwise different) no row of a mask==0
\* position appears in it.
C1_SelectRows ==
    op.name = "select" =>
        LET bits == OneBits(op.mask)
        IN  /\ Len(op.out) = Cardinality({p \in (1..Len(op.mask)) \X (1..Len(op.mask[1])) :
                                            op.mask[p[1]][p[2]] = 1})
            /\ Len(op.out) = Len(bits)
            /\ \A j \in 1..Len(bits) : op.out[j] = op.layer[bits[j][1]][bits[j][2]]
            /\ RowsDistinct(op.layer) =>
                 \A b \in 1..Len(op.mask) : \A s \in 1..Len(op.mask[1]) :
                    op.mask[b][s] = 0 =>
                        \A j \in 1..Len(op.out) : op.out[j] # op.layer[b][s]

\* a select over two batch elements whose mask skips a position in the first
\* and keeps one in each
C1_Witness ==
    /\ op.name = "select"
    /\ Len(op.layer) >= 2 /\ Len(op.layer[1]) >= 2 /\ Len(op.layer[1][1]) >= 2
    /\ RowsDistinct(op.layer)
    /\ op.mask[1][1] = 0 /\ op.mask[1][2] = 1 /\ op.mask[2][1] = 1
    /\ Len(op.out) >= 2

----------------------------------------------------------------------------
(* C2 *)

\* q undoes p: gathering by p and then by q reads every position back
IsInverse(p, q) ==
    \A b \in 1..Len(p) : \A a \in 1..Len(q[b]) : p[b][q[b][a] + 1] = a - 1

\* C2: the output of rearange is [B,A,D] with output[b,a,:] =
\* layer[b, index[b,a], :]; an index that is the identity on an interval
\* returns that slice of the layer; and rearranging the result of a
\* rearrangement by a permutation with the inverse permutation returns the
\* layer the first call was given.
C2_Rearange ==
    op.name = "rearange" =>
        /\ Len(op.out) = Len(op.index)
        /\ \A b \in 1..Len(op.index) :
            /\ Len(op.out[b]) = Len(op.index[b])
            /\ \A a \in 1..Len(op.index[b]) :
                    op.out[b][a] = op.layer[b][op.index[b][a] + 1]
            /\ \A lo \in 0..(Len(op.layer[b]) - 1) :
                    (\A a \in 1..Len(op.index[b]) : op.index[b][a] = lo + a - 1)
                        => op.out[b] = SubSeq(op.layer[b], lo + 1, lo + Len(op.index[b]))
        /\ (op.before # <<>> /\ IsInverse(op.before[2], op.index))
                => op.out = op.before[1]

\* a layer of pairwise different rows over two batch elements rearranged by
\* a permutation that is not its own inverse, and then by the inverse
C2_Witness ==
    /\ op.name = "rearange"
    /\ op.before # <<>>
    /\ Len(op.before[1]) >= 2
    /\ RowsDistinct(op.before[1])
    /\ IsInverse(op.before[2], op.index)
    /\ ~IsInverse(op.before[2], op.before[2])
    /\ op.out = op.before[1]

----------------------------------------------------------------------------
(* C3 *)

IsMarginStep == op.name = "step" /\ args.loss.kind = "max_margin_top"

\* for every row the gold score exceeds each top-k entry taken by the margin
GoldExceedsTopK ==
    LET gold == GoldScores(LossRows(args, op.src), LossRows(args, op.tgt))
        top  == TopVals(LossRows(args, op.src), LossRows(args, op.tgt), args.loss.k)
    IN  \A i \in 1..Len(top) : \A j \in 1..Len(top[i]) :
            /\ ~gold[i].nan /\ ~top[i][j].nan
            /\ gold[i].v - top[i][j].v >= op.margin

LossIsZero == ~op.loss.nan /\ op.loss.num = 0

----------------------------------------------------------------------------
(* C4 *)

\* C4: a step whose loss is NaN ends the run at once, in training and in
\* evaluation, with no zero_grad, backward or optimizer step, and leaves the
\* mapping and the encoder as they were; a step whose loss is not NaN and
\* that is not eval-only makes exactly the calls zero_grad, backward, step,
\* in that order.
C4_NaNAbortsStep ==
    [][(running /\ op'.name = "step") =>
            /\ op'.loss.nan =>
                    /\ ~running'
                    /\ op'.calls = <<>>
                    /\ mapping' = mapping
                    /\ bert_model' = bert_model
            /\ (~op'.loss.nan /\ ~op'.eval_only) =>
                    /\ running'
                    /\ op'.calls = <<"zero_grad", "backward", "step">>]_vars

\* a training step on a batch whose loss is NaN has ended the run
C4_Witness ==
    /\ op.name = "step"
    /\ op.loss.nan
    /\ ~op.eval_only
    /\ Len(op.src) >= 1
    /\ ~running

----------------------------------------------------------------------------
(* C5 *)

\* the parameters the run trains, as save_model would write them
LiveStateDict == SavedStateDict

SavingCalls == {i \in 1..Len(hist) : hist[i].saved}

LastSaved == hist[CHOOSE i \in SavingCalls : \A j \in SavingCalls : j <= i]

\* C5: after a save_best that wrote a checkpoint, load_best leaves the live
\* trainable parameters (the mapping weights in the mapping modes, the
\* encoder parameters in fine-tune mode) at the values that were saved.
C5_RoundTrip ==
    (op.name = "load_best" /\ SavingCalls # {}) =>
        LiveStateDict = LastSaved.state_dict

----------------------------------------------------------------------------
(* C6 *)

MaxOf(S) == CHOOSE x \in S : \A y \in S : y <= x

\* the first save_best call of the history whose metric was b
FirstReach(h, b) ==
    h[CHOOSE i \in 1..Len(h) :
        h[i].metric = b /\ \A j \in 1..(i - 1) : h[j].metric # b]

\* C6: best_valid_metric is the maximum of -1e12 and of the metrics passed
\* so far; a save_best call writes the checkpoint exactly when its metric is
\* strictly greater than the best before it, and otherwise changes neither
\* best_valid_metric nor the file; so once a metric has improved on -1e12
\* the file holds the parameters of the first call that reached the best.
C6_SaveBest ==
    [][/\ best_valid_metric' =
            MaxOf({InitBestValidMetric} \cup {hist'[i].metric : i \in 1..Len(hist')})
       /\ Len(hist') = Len(hist) + 1 =>
            LET call == hist'[Len(hist')]
            IN  IF call.metric > best_valid_metric
                THEN /\ op'.saved
                     /\ ckpt_file' = FileOf(call.state_dict)
                ELSE /\ ~op'.saved
                     /\ ckpt_file' = ckpt_file
                     /\ best_valid_metric' = best_valid_metric
       /\ best_valid_metric' > InitBestValidMetric =>
            ckpt_file' = FileOf(FirstReach(hist', best_valid_metric').state_dict)]_vars

\* a call improved the metric, a later call with other parameters tied it,
\* and the file still holds the parameters of the first
C6_Witness ==
    /\ Len(hist) >= 2
    /\ hist[1].metric = best_valid_metric
    /\ hist[2].metric = best_valid_metric
    /\ hist[2].state_dict # hist[1].state_dict
    /\ ckpt_file = FileOf(hist[1].state_dict)

----------------------------------------------------------------------------
(* C7 *)

\* C7: load_best without a checkpoint file fails with an assertion failure
\* and changes neither the mapping, the encoder, best_valid_metric, the
\* optimizer nor the (absent) file.
C7_LoadMissing ==
    [][(running /\ ckpt_file = NoFile /\ op'.name = "load_best") =>
            /\ op'.outcome = "AssertionError"
            /\ UNCHANGED <<mapping, bert_model, best_valid_metric,
                           map_optimizer, ckpt_file>>]_vars

\* load_best has failed on a trained mapping, which kept its trained weight
C7_Witness ==
    /\ op.name = "load_best"
    /\ op.outcome = "AssertionError"
    /\ ckpt_file = NoFile
    /\ mapping.weight # IdentityWeight

----------------------------------------------------------------------------
(* C8 *)

SampleLrArgs ==
    /\ args.lr = <<1, 10>>
    /\ args.lr_decay = <<1, 2>>
    /\ args.min_lr = <<1, 100>>

\* C8: with an SGD optimizer a call of decay_map_lr replaces lr by
\* max(min_lr, lr * lr_decay) when that is strictly smaller than lr and
\* leaves it otherwise; lr never increases and never goes from at or above
\* min_lr to below it; with lr = 0.1, lr_decay = 0.5, min_lr = 0.01 the
\* first call yields 0.05 and from the fourth call on lr is 0.01.
C8_Decay ==
    [][(ndecay' = ndecay + 1 /\ IsSgd(args)) =>
            LET old  == map_optimizer.lr
                new  == map_optimizer'.lr
                cand == RMax(args.min_lr, RMul(old, args.lr_decay))
            IN  /\ new = IF RLess(cand, old) THEN cand ELSE old
                /\ ~RLess(old, new)
                /\ ~RLess(old, args.min_lr) => ~RLess(new, args.min_lr)
                /\ SampleLrArgs =>
                        /\ ndecay' = 1 => new = <<1, 20>>
                        /\ ndecay' >= 4 => new = <<1, 100>>]_vars

\* five calls from lr = 0.1 with lr_decay = 0.5 and min_lr = 0.01
C8_Witness ==
    /\ SampleLrArgs
    /\ IsSgd(args)
    /\ op.name = "decay_map_lr"
    /\ ndecay = 5
    /\ map_optimizer.lr = <<1, 100>>

----------------------------------------------------------------------------
(* C9 *)

IsMappedCall ==
    /\ op.name \in {"get_indexed_mapped_bert", "get_indexed_mapped_bert_from_bert"}
    /\ args.map_type = "linear"

\* C9: in a linear-mapping mode, whenever the mapping is applied its weights
\* and the embeddings are on the same device; a transfer is made only when
\* the two were on different devices; and when the trainer's device is the
\* CPU the result is returned on the CPU.
C9_CoLocated ==
    IsMappedCall =>
        /\ op.applied => op.w_dev = op.x_dev
        /\ op.transferred => op.w_dev0 # op.x_dev0
        /\ (device = "cpu" /\ op.outcome = "return") => op.out_dev = "cpu"

----------------------------------------------------------------------------
(* C10 *)

ParamsChange ==
    \/ mapping'.weight # mapping.weight
    \/ bert_model'.params # bert_model.params

\* C10 as stated: the mapping weight and the encoder parameters change only
\* in a non-eval supervised_mapping_step or in procrustes.
C10_OnlyStepOrProcrustes ==
    [][ParamsChange =>
            \/ op'.name = "step" /\ ~op'.eval_only
            \/ op'.name = "procrustes"]_vars

\* C10 amended: the mapping weight and the encoder parameters change only in
\* a non-eval supervised_mapping_step, in procrustes, or in a load_best that
\* loads a checkpoint; select, rearange, the get_indexed_* calls, an
\* eval-only step, decay_map_lr and save_best leave them unchanged.
C10_OnlyStepProcrustesOrLoad ==
    [][ParamsChange =>
            \/ op'.name = "step" /\ ~op'.eval_only
            \/ op'.name = "procrustes"
            \/ op'.name = "load_best" /\ op'.outcome = "return"]_vars

\* load_best has replaced a trained mapping weight by the saved one
C10_Witness ==
    /\ op.name = "load_best"
    /\ op.outcome = "return"
    /\ op.was # mapping.weight
    /\ ckpt_file = FileOf(MappingStateDict(mapping))

----------------------------------------------------------------------------
(* C11 *)

\* A^T A is invertible: the columns of A are linearly independent
FullColumnRank(A) ==
    LET G == MatMul(Transpose(A), A)
    IN  G[1][1] * G[2][2] - G[1][2] * G[2][1] # 0

\* the mapping applied to the rows of A: nn.Linear gives A W^T
Mapped(A) == Linear(mapping.weight, <<A>>)[1]

\* C11 as stated: after procrustes(A, B) with B = A R for an orthogonal R,
\* the mapping weight W equals R and the product A W equals B, for every A.
C11_RecoversR ==
    op.name = "procrustes" =>
        \A R \in Orthogonal2 :
            op.tgt = MatMul(op.src, R) =>
                /\ mapping.weight = R
                /\ MatMul(op.src, mapping.weight) = op.tgt

\* C11 amended: after procrustes(A, B) with A of full column rank and
\* B = A R for an orthogonal R, the mapping weight W equals the transpose of
\* R and the mapping applied to A (A W^T, as nn.Linear computes it) equals B,
\* whatever the weight, the learning rate and the best metric were before.
C11_RecoversTranspose ==
    (op.name = "procrustes" /\ FullColumnRank(op.src)) =>
        \A R \in Orthogonal2 :
            op.tgt = MatMul(op.src, R) =>
                /\ mapping.weight = Transpose(R)
                /\ Mapped(op.src) = op.tgt

\* procrustes has recovered a quarter turn from a sheared basis, after the
\* weight, the learning rate and the best metric had all been changed
C11_Witness ==
    /\ op.name = "procrustes"
    /\ op.src = <<<<1, 1>>, <<0, 1>>>>
    /\ op.tgt = MatMul(op.src, <<<<0, 1>>, <<-1, 0>>>>)
    /\ mapping.weight = <<<<0, -1>>, <<1, 0>>>>
    /\ op.was = <<<<2, 0>>, <<0, 1>>>>
    /\ map_optimizer.lr # args.lr
    /\ best_valid_metric # InitBestValidMetric

====
